---- MODULE Spec2Model ----
(***************************************************************************)
(* State-machine model of the tb-rs session client (src/tb-rs/src) and of  *)
(* the thread bridge of tb-web (src/tb-web/src/transport.rs).              *)
(*                                                                         *)
(* Byte strings are modelled as records [len, words]: len is the number of *)
(* bytes, words the values the code reads out of them.  The 128-bit        *)
(* AEGIS tag is modelled by a small polynomial hash (collisions possible). *)
(* The 32-bit request counter is modelled with RequestNumberBits bits so   *)
(* that its wrap-around is reachable.                                      *)
(***************************************************************************)
EXTENDS Integers, Sequences, FiniteSets, TLC

\* ------------------------------------------------------------------ bounds
RequestNumberBits == 2
HashMod == 3
MaxReplicas == 2
MaxView == 1
MaxAttempts == 2
MaxElements == 2
MaxCalls == 2
SizeBits == 21
MaxHeld == 2

\* --------------------------------------------------------- program constants
HEADER_SIZE == 256
MESSAGE_SIZE_MAX == 1048576
CLIENT_RELEASE == 1
RegisterRequestSize == 256
RegisterResultSize == 64
CommandRequest == 5
CommandReply == 8
CommandEviction == 18
CommandPongClient == 4
OperationRegister == 2
OperationCreateAccounts == 138
OperationLookupAccounts == 140
AccountSize == 128
IdSize == 16
NoSession == 1
SessionReleaseMismatch == 8

RequestNumberMax == 2 ^ RequestNumberBits - 1

\* the largest u32, for the sizes Client::request computes in u32; the width is
\* SizeBits so that a slice of events reaches it
SizeMax == 2 ^ SizeBits - 1

\* ClientBuilder::request_timeout and request_timeout_max, in milliseconds
RequestTimeouts == {1, 2}

RequestTimeoutMax == 8

\* Option<T> is a sequence of at most one element
NoneOpt == <<>>
Some(x) == <<x>>
NoMsg == [none |-> TRUE]

\* ------------------------------------------------------------------ checksum
\* the tag absorbs the words s[i], s[i + 1], ... one after the other
RECURSIVE Absorb(_, _, _)
Absorb(h, s, i) ==
    IF i > Len(s) THEN h ELSE Absorb((h * 7 + s[i] + 1) % HashMod, s, i + 1)

checksum(words) == Absorb(1 % HashMod, words, 1)

Other(c) == (c + 1) % HashMod

Checksums == 0 .. (HashMod - 1)

\* --------------------------------------------------------------- byte strings
Bytes(n, w) == [len |-> n, words |-> w]

EmptyBytes == Bytes(0, <<>>)

BytesWords(b) == <<b.len>> \o b.words

\* data[..len] of a byte string made of RegisterResultSize-byte chunks
Prefix(b, n) ==
    Bytes(n, SubSeq(b.words, 1, IF n \div RegisterResultSize < Len(b.words)
                                  THEN n \div RegisterResultSize
                                  ELSE Len(b.words)))

\* -------------------------------------------------------------------- header
\* bytes 16..256 of the header: everything but the checksum field itself
HeaderTail(h) ==
    <<h.checksum_body, h.cluster, h.size, h.view, h.release, h.command>> \o h.overlay

calculate_checksum(h) == checksum(HeaderTail(h))

calculate_checksum_body(body) == checksum(BytesWords(body))

valid_checksum(h) == h.checksum = calculate_checksum(h)

\* a parser that trusts the body without recomputing its tag
unchecked_checksum_body(h, body) == TRUE

valid_checksum_body(h, body) == h.checksum_body = calculate_checksum_body(body)

as_request(h) ==
    [parent |-> h.overlay[1], client |-> h.overlay[2], session |-> h.overlay[3],
     request |-> h.overlay[4], operation |-> h.overlay[5]]

as_reply(h) ==
    [request_checksum |-> h.overlay[1], context |-> h.overlay[2],
     client |-> h.overlay[3], commit |-> h.overlay[4]]

as_eviction(h) == [client |-> h.overlay[1], reason |-> h.overlay[Len(h.overlay)]]

\* reason.try_into().unwrap_or(EvictionReason::NoSession)
EvictionReasonOf(value) ==
    IF value \in NoSession .. SessionReleaseMismatch THEN value ELSE NoSession

\* ------------------------------------------------------------------- message
\* Message::set_body followed by Message::finalize: size, body tag, header tag
finalize(h, body) ==
    LET sized == [h EXCEPT !.size = HEADER_SIZE + body.len,
                           !.checksum_body = calculate_checksum_body(body)]
    IN  [header |-> [sized EXCEPT !.checksum = calculate_checksum(sized)],
         body |-> body]

\* RequestBuilder::new(..).session(..).request(..).parent(..).operation(..)
\*     .release(..).view(..).body(..).build()
RequestBuilder(cluster, client, session, request, parent, operation, release, view, body) ==
    finalize([checksum |-> 0, checksum_body |-> 0, cluster |-> cluster,
              size |-> HEADER_SIZE, view |-> view, release |-> release,
              command |-> CommandRequest,
              overlay |-> <<parent, client, session, request, operation>>],
             body)

\* --------------------------------------------------------------- multi-batch
DivCeil(a, b) == (a + b - 1) \div b

trailer_total_size(element_size, batch_count) ==
    LET trailer_unpadded_size == (batch_count * 2) + 2
    IN  IF element_size = 0 THEN trailer_unpadded_size
        ELSE DivCeil(trailer_unpadded_size, element_size) * element_size

\* the encoded body: payload, 0xFF padding, element_count, batch_count = 1
encoded_body(events_len, element_size) ==
    Bytes(events_len + trailer_total_size(element_size, 1),
          <<events_len, IF element_size = 0 THEN 0 ELSE events_len \div element_size, 1>>)

is_multi_batch(operation) ==
    operation \in {OperationCreateAccounts, OperationLookupAccounts}

size_of(operation) ==
    IF operation = OperationCreateAccounts THEN AccountSize ELSE IdSize

\* ------------------------------------------------------------------- parsing
\* received data: n bytes read, the header they start with (when n >= 256),
\* and the bytes after the header
\* a parser that forgets to compare request_checksum
wrong_reply_client_only(reply_header, expected, self_id) ==
    reply_header.client # self_id

\* try_parse_reply, lines 580-585: the reply answers another request or client
wrong_reply(reply_header, expected, self_id) ==
    \/ reply_header.request_checksum # expected
    \/ reply_header.client # self_id

try_parse_reply(data, expected, self_id) ==
    IF data.n < HEADER_SIZE THEN [tag |-> "NeedMoreData"]
    ELSE IF ~valid_checksum(data.header)
    THEN [tag |-> "Protocol", error |-> "InvalidHeaderChecksum"]
    ELSE IF data.header.command # CommandReply
    THEN IF data.header.command = CommandEviction
         THEN [tag |-> "Evicted",
               reason |-> EvictionReasonOf(as_eviction(data.header).reason)]
         ELSE [tag |-> "Protocol", error |-> "UnexpectedReply"]
    ELSE IF data.n < data.header.size THEN [tag |-> "NeedMoreData"]
    ELSE IF wrong_reply(as_reply(data.header), expected, self_id)
    THEN [tag |-> "WrongReply"]
    ELSE IF data.header.size < HEADER_SIZE
    THEN [tag |-> "Panic"]       \* &data[256..total_size] with total_size < 256
    ELSE IF ~valid_checksum_body(data.header,
                                 Prefix(data.tail, data.header.size - HEADER_SIZE))
    THEN [tag |-> "Protocol", error |-> "InvalidBodyChecksum"]
    ELSE [tag |-> "Ok",
          msg |-> [header |-> data.header,
                   body |-> Prefix(data.tail, data.header.size - HEADER_SIZE)]]

\* --------------------------------------------------------------- buffer pool
OwnedBuf_with_capacity == [len |-> 0, poisoned |-> FALSE]

\* a reset that empties the buffer and leaves its poison mark
reset_len_only(buf) == [buf EXCEPT !.len = 0]

reset(buf) == [len |-> 0, poisoned |-> FALSE]

acquire(avail, quar) ==
    IF avail # <<>>
    THEN [buf |-> reset(avail[Len(avail)]),
          available |-> SubSeq(avail, 1, Len(avail) - 1), quarantine |-> quar]
    ELSE IF quar # <<>>
    THEN [buf |-> reset(Head(quar)), available |-> avail, quarantine |-> Tail(quar)]
    ELSE [buf |-> OwnedBuf_with_capacity, available |-> avail, quarantine |-> quar]

\* a pool that frees what is given back to it
release_dropping(avail, quar, buf) == [available |-> avail, quarantine |-> quar]

release(avail, quar, buf) ==
    IF buf.poisoned
    THEN [available |-> avail, quarantine |-> Append(quar, buf)]
    ELSE [available |-> Append(avail, buf), quarantine |-> quar]

\* a drain that frees the quarantined buffers
clear_quarantine_dropping(avail, quar) ==
    [available |-> avail, quarantine |-> <<>>]

clear_quarantine(avail, quar) ==
    [available |-> avail \o [i \in 1 .. Len(quar) |-> reset(quar[i])],
     quarantine |-> <<>>]

\* ------------------------------------------------------ what the network sends
\* every read of a full message delivers this many bytes: the message and,
\* when it is shorter, bytes that follow it on the stream
ReadSize == HEADER_SIZE + RegisterResultSize

\* the bytes after the header: a RegisterResult with batch_size_limit 256
StreamTail == Bytes(RegisterResultSize, <<256>>)

\* bodies a replica may send: nothing, or one RegisterResult-sized chunk
Tails == {EmptyBytes, StreamTail}

Sizes ==
    {HEADER_SIZE - 1, HEADER_SIZE, HEADER_SIZE + RegisterResultSize,
     HEADER_SIZE + 2 * RegisterResultSize}

\* the session numbers a cluster hands out at registration
Commits == {7}

\* a header whose stored tags are right (hok, bok) or wrong
Stamp(h, body, hok, bok) ==
    LET cb == calculate_checksum_body(body)
        hb == [h EXCEPT !.checksum_body = IF bok THEN cb ELSE Other(cb)]
        c  == calculate_checksum(hb)
    IN  [hb EXCEPT !.checksum = IF hok THEN c ELSE Other(c)]

ServerHeader(command, size, v, overlay) ==
    [checksum |-> 0, checksum_body |-> 0, cluster |-> 0, size |-> size,
     view |-> v, release |-> CLIENT_RELEASE, command |-> command,
     overlay |-> overlay]

\* a read: n bytes, the header and what follows it when n covers them, and
\* whether the sender stamped the header tag and the body tag right
ShortReads ==
    {[n |-> HEADER_SIZE - 1, header |-> NoMsg, tail |-> EmptyBytes, sealed |-> FALSE,
      body_sealed |-> FALSE]}

\* well-formed replies to the pending request
GoodReplies(expected) ==
    {[n |-> ReadSize,
      header |-> Stamp(ServerHeader(CommandReply, HEADER_SIZE + t.len, v,
                                    <<expected, ctx, 1, cm>>), t, TRUE, TRUE),
      tail |-> StreamTail, sealed |-> TRUE, body_sealed |-> TRUE] :
        t \in Tails, v \in 0 .. MaxView, ctx \in Checksums, cm \in Commits}

\* how a reply can be off: <<size, right request_checksum, client, right header
\* tag, right body tag>>, each fault alone and under a wrong header tag
Faults ==
    LET one == {<<sz, TRUE, 1, TRUE, TRUE>> : sz \in Sizes \ {ReadSize}}
                 \cup {<<ReadSize, FALSE, 1, TRUE, TRUE>>,
                       <<ReadSize, TRUE, 2, TRUE, TRUE>>,
                       <<ReadSize, TRUE, 1, TRUE, FALSE>>}
    IN  one \cup {<<f[1], f[2], f[3], FALSE, f[5]>> : f \in one}
            \cup {<<ReadSize, TRUE, 1, FALSE, TRUE>>,
                  <<ReadSize, FALSE, 1, TRUE, FALSE>>,
                  <<ReadSize, TRUE, 2, TRUE, FALSE>>,
                  <<ReadSize + RegisterResultSize, FALSE, 1, TRUE, TRUE>>}

BadReplies(expected) ==
    {[n |-> ReadSize,
      header |-> Stamp(ServerHeader(CommandReply, f[1], MaxView,
                                    <<IF f[2] THEN expected ELSE Other(expected),
                                      Other(expected), f[3], cm>>),
                       Prefix(StreamTail,
                              IF f[1] >= HEADER_SIZE THEN f[1] - HEADER_SIZE ELSE 0),
                       f[4], f[5]),
      tail |-> StreamTail, sealed |-> f[4], body_sealed |-> f[5]] :
        f \in Faults, cm \in Commits}

Evictions ==
    {[n |-> ReadSize,
      header |-> Stamp(ServerHeader(CommandEviction, HEADER_SIZE, 0, <<1, e[1]>>),
                       EmptyBytes, e[2], TRUE),
      tail |-> StreamTail, sealed |-> e[2], body_sealed |-> TRUE] :
        e \in {<<0, TRUE>>, <<NoSession, TRUE>>, <<SessionReleaseMismatch, TRUE>>,
               <<NoSession, FALSE>>}}

Pongs ==
    {[n |-> ReadSize,
      header |-> Stamp(ServerHeader(CommandPongClient, HEADER_SIZE, 0, <<0, 0>>),
                       EmptyBytes, TRUE, TRUE),
      tail |-> StreamTail, sealed |-> TRUE, body_sealed |-> TRUE]}

\* what a read on the primary may deliver while `expected` is waited for
Received ==
    [expected \in Checksums |->
        ShortReads \cup GoodReplies(expected) \cup BadReplies(expected)
            \cup Evictions \cup Pongs]

\* --------------------------------------------------------------------- state
VARIABLES
    cfg,                \* id, cluster, replica_count, bridged
    state, view, session, request_number, parent, batch_size_limit,
    connections,        \* Driver::connections, by replica index
    available, quarantine,      \* BufferPool
    pc,                 \* where the handle is: build, send, wait, idle, ...
    msg, expected_checksum, in_register, attempts,  \* the request in flight
    timeout,            \* send_request_with_retry: the per-attempt timeout, ms
    result,             \* what the last operation returned
    hist,               \* observations of the run (no effect on the program)
    bridge              \* tb-web: channel, reply slots, loop

vars ==
    <<cfg, state, view, session, request_number, parent, batch_size_limit,
      connections, available, quarantine, pc, msg, expected_checksum,
      in_register, attempts, timeout, result, hist, bridge>>

session_vars == <<state, view, session, request_number, parent, batch_size_limit>>

NoObs == [seen |-> FALSE]

\* where the last attempt sent the request
NoHedge == [seen |-> FALSE]

\* the events a typed operation was called with
NoAsk == [seen |-> FALSE]

Asked(events_len, element_size) ==
    [seen |-> TRUE, payload_bytes |-> events_len, element_size |-> element_size]

\* no operation has returned yet, or one is in flight
Pending == [kind |-> "None"]

hist0 ==
    [built |-> <<>>,        \* the request built last, and whether it follows a reply
     accepted |-> <<>>,     \* the reply accepted for it, if any
     sent |-> {},           \* what each attempt of the operation in flight sent
     asked |-> NoAsk,       \* the events the call being started was given
     hedge |-> NoHedge,     \* where the last attempt sent, until a read follows
     obs |-> NoObs]         \* what the last read delivered

bridge0 ==
    [queue |-> <<>>, replies |-> [i \in 1 .. MaxCalls |-> "none"], cur |-> 0,
     rx_open |-> TRUE, calls |-> 0, after_close |-> {}]

\* ClientBuilder::build up to the call of register
InitWith(bridged) ==
    /\ cfg \in [id : {1}, cluster : {0}, replica_count : 1 .. MaxReplicas,
                request_timeout : RequestTimeouts,
                request_timeout_max : {RequestTimeoutMax}, bridged : {bridged}]
    /\ state = "Disconnected"
    /\ view = 0
    /\ session = 0
    /\ request_number = 0
    /\ parent = 0
    /\ batch_size_limit = NoneOpt
    /\ connections = [r \in 0 .. (cfg.replica_count - 1) |-> "Disconnected"]
    /\ available = [i \in 1 .. (cfg.replica_count + 2) |-> OwnedBuf_with_capacity]
    /\ quarantine = <<>>
    /\ pc = "build"
    /\ msg = NoMsg
    /\ expected_checksum = 0
    /\ in_register = FALSE
    /\ attempts = 0
    /\ timeout = 0
    /\ result = Pending
    /\ hist = hist0
    /\ bridge = bridge0

Init == InitWith(FALSE)

InitBridge == InitWith(TRUE)

\* ------------------------------------------------------------ shared helpers
primary_index == view % cfg.replica_count

\* the observations made when a request has been built
Built(m) ==
    [hist EXCEPT
        !.built = <<[checksum |-> m.header.checksum,
                     request |-> as_request(m.header).request,
                     operation |-> as_request(m.header).operation,
                     after_reply |-> hist.accepted # <<>>,
                     after_evicted |-> result.kind = "Evicted"]>>,
        !.accepted = <<>>,
        !.sent = {},
        !.asked = NoAsk,
        !.hedge = NoHedge,
        !.obs = NoObs]

\* a loop whose end leaves the queued requests and their reply channels alive
ThreadDied_keeping_queue(b, call) == [b EXCEPT !.rx_open = FALSE, !.cur = 0]

\* tb-web: the loop's thread ends; senders of queued and served calls are dropped
ThreadDied(b, call) ==
    LET waiting == {b.queue[i].call : i \in 1 .. Len(b.queue)} \cup {call}
    IN  [b EXCEPT !.queue = <<>>, !.rx_open = FALSE, !.cur = 0,
                  !.replies = [i \in 1 .. MaxCalls |->
                                  IF i \in waiting THEN "Connection" ELSE @[i]]]

\* a loop that answers on the channel of the call submitted last
Replied_to_latest(b, call, kind) ==
    IF call = 0 THEN b ELSE [b EXCEPT !.replies[b.calls] = kind, !.cur = 0]

\* tb-web: reply.send(result) for the call being served (0: a direct call)
Replied(b, call, kind) ==
    IF call = 0 THEN b ELSE [b EXCEPT !.replies[call] = kind, !.cur = 0]

NoRequest ==
    /\ msg' = NoMsg
    /\ expected_checksum' = 0
    /\ in_register' = FALSE
    /\ attempts' = 0
    /\ timeout' = 0

\* the operation returns res to its caller; b is the bridge, call the call served
Return(res, b, call) ==
    /\ result' = res
    /\ pc' = IF in_register /\ res.kind # "Ok" THEN "dropped" ELSE "idle"
    /\ NoRequest
    /\ bridge' = Replied(b, call, res.kind)

\* the thread of the handle panics
Panic(b, call) ==
    /\ result' = [kind |-> "Panic"]
    /\ pc' = "panicked"
    /\ NoRequest
    /\ bridge' = IF cfg.bridged THEN ThreadDied(b, call) ELSE b

\* the observations kept once the operation has returned
Done(h) ==
    [h EXCEPT !.sent = {},
              !.asked = NoAsk,
              !.hedge = NoHedge,
              !.built = IF @ = <<>> THEN @
                        ELSE <<[@[1] EXCEPT !.after_reply = FALSE,
                                            !.after_evicted = FALSE]>>]

Returned(h, res) == [Done(h) EXCEPT !.obs = NoObs]

\* a driver that keeps the connection it is told to drop
disconnect_skipped(conns, idx) == conns

\* Driver::disconnect
disconnect(conns, idx) ==
    IF idx \notin DOMAIN conns THEN conns
    ELSE [conns EXCEPT ![idx] = "Disconnected"]

\* ------------------------------------------------------------ session client
\* a session that leaves its parent alone when it sends
ParentOnSendKept(m) == parent

\* Client::request, lines 414-415: the chain advances before the first send
ParentOnSend(m) == m.header.checksum

RequestNumberOnSend(n) == (n + 1) % (RequestNumberMax + 1)

\* a session that chains on the reply's echo of the request
ParentOnReplyEcho(reply) == as_reply(reply.header).request_checksum

\* a session that takes every accepted reply's view
ViewOnReplyAlways(v, reply) == reply.header.view

\* Client::request, lines 421-426, and Client::register, lines 355-357
ParentOnReply(reply) == as_reply(reply.header).context

ViewOnReply(v, reply) == IF reply.header.view > v THEN reply.header.view ELSE v

\* a register that takes the session number from the wrong field
SessionOnRegisterContext(reply) == as_reply(reply.header).context

SessionOnRegister(reply) == as_reply(reply.header).commit

\* a guard that turns away only a handle that was closed
StateOnlyShutdown == state = "Shutdown"

\* Client::request, line 366: the handle is not Ready
StateNotReady == state # "Ready"

\* a register that runs in any state
StateNotDisconnected_ignored(s) == FALSE

\* the test at the head of Client::register
StateNotDisconnected(s) == s # "Disconnected"

\* Client::register up to its first suspension
RegisterStart ==
    /\ pc = "build"
    /\ IF StateNotDisconnected(state)
       THEN /\ result' = [kind |-> "InvalidOperation"]
            /\ pc' = "dropped"
            /\ UNCHANGED <<cfg, session_vars, connections, available, quarantine,
                           msg, expected_checksum, in_register, attempts, timeout,
                           hist, bridge>>
       ELSE LET m == RequestBuilder(cfg.cluster, cfg.id, 0, 0, 0, OperationRegister,
                                    CLIENT_RELEASE, 0, Bytes(RegisterRequestSize, <<0>>))
            IN  /\ state' = "Registering"
                /\ parent' = m.header.checksum
                /\ msg' = m
                /\ expected_checksum' = m.header.checksum
                /\ in_register' = TRUE
                /\ attempts' = 0
                /\ timeout' = cfg.request_timeout
                /\ pc' = "send"
                /\ hist' = Built(m)
                /\ result' = Pending
                /\ UNCHANGED <<cfg, view, session, request_number, batch_size_limit,
                               connections, available, quarantine, bridge>>

\* Client::request up to its first suspension, for `count` events of `operation`;
\* overflow_checks: whether the build panics on integer overflow or wraps
StartRequest(operation, count, overflow_checks, b, call) ==
    LET element_size == size_of(operation)
        events_len   == count * element_size            \* events_bytes.len()
        events_u32   == events_len % (SizeMax + 1)      \* events_bytes.len() as u32
        trailer_size == trailer_total_size(element_size, 1)
        sum          == events_u32 + trailer_size
        total_size   == sum % (SizeMax + 1)
        \* encode: copy_from_slice of the events into buffer[..events_len as u32],
        \* a slice of send_buffer[..total_size]
        encode_panics == \/ events_len # events_u32
                         \/ events_u32 > total_size
                         \/ total_size > MESSAGE_SIZE_MAX
        ask  == Asked(events_len, element_size)
        body == IF is_multi_batch(operation)
                THEN encoded_body(events_len, element_size)
                ELSE Bytes(events_len, <<events_len>>)
    IN  \E m \in {RequestBuilder(cfg.cluster, cfg.id, session, request_number, parent,
                                 operation, CLIENT_RELEASE, view, body)} :
        IF StateNotReady
        THEN /\ Return([kind |-> "NotRegistered"], b, call)
             /\ hist' = [Returned(hist, [kind |-> "NotRegistered"]) EXCEPT !.asked = ask]
             /\ UNCHANGED <<cfg, session_vars, connections, available, quarantine>>
        ELSE IF is_multi_batch(operation) /\ sum > SizeMax /\ overflow_checks
        THEN /\ Panic(b, call)            \* attempt to add with overflow, line 382
             /\ hist' = [Returned(hist, [kind |-> "Panic"]) EXCEPT !.asked = ask]
             /\ UNCHANGED <<cfg, session_vars, connections, available, quarantine>>
        ELSE IF /\ is_multi_batch(operation)
                /\ batch_size_limit # NoneOpt
                /\ total_size > batch_size_limit[1]
        THEN /\ Return([kind |-> "RequestTooLarge", size |-> total_size,
                        limit |-> batch_size_limit[1]], b, call)
             /\ hist' = [Returned(hist, [kind |-> "RequestTooLarge"]) EXCEPT !.asked = ask]
             /\ UNCHANGED <<cfg, session_vars, connections, available, quarantine>>
        ELSE IF is_multi_batch(operation) /\ encode_panics
        THEN /\ Panic(b, call)            \* multi_batch::encode, lines 44-47
             /\ hist' = [Returned(hist, [kind |-> "Panic"]) EXCEPT !.asked = ask]
             /\ UNCHANGED <<cfg, session_vars, connections, available, quarantine>>
        ELSE /\ parent' = ParentOnSend(m)
             /\ hist' = [Built(m) EXCEPT !.asked = ask]
             /\ IF request_number = RequestNumberMax /\ overflow_checks
                THEN /\ Panic(b, call)     \* attempt to add with overflow
                     /\ UNCHANGED request_number
                ELSE /\ request_number' = RequestNumberOnSend(request_number)
                     /\ msg' = m
                     /\ expected_checksum' = m.header.checksum
                     /\ in_register' = FALSE
                     /\ attempts' = 0
                     /\ timeout' = cfg.request_timeout
                     /\ pc' = "send"
                     /\ bridge' = IF call = 0 THEN b ELSE [b EXCEPT !.cur = call]
                     /\ result' = Pending
             /\ UNCHANGED <<cfg, state, view, session, batch_size_limit,
                            connections, available, quarantine>>

\* the numbers of events the calls are made with: a few, the largest number of
\* accounts whose encoded size is within MESSAGE_SIZE_MAX, and the smallest
\* number of accounts whose encoded size does not fit the u32
EventCounts ==
    (0 .. MaxElements)
        \cup {MESSAGE_SIZE_MAX \div AccountSize - 1, (SizeMax + 1) \div AccountSize - 1}

Operations == {OperationCreateAccounts}

\* Client::max_batch_count::<T>() with size_of::<T>() = element_size
max_batch_count(limit, element_size) ==
    IF limit = NoneOpt \/ element_size = 0 THEN NoneOpt
    ELSE LET trailer_size == trailer_total_size(element_size, 1)
             max_payload  == IF limit[1] > trailer_size
                             THEN limit[1] - trailer_size ELSE 0  \* saturating_sub
         IN  Some(max_payload \div element_size)

\* the batches a caller sizes with max_batch_count: that many events, one more
BoundaryCounts(operation) ==
    LET max == max_batch_count(batch_size_limit, size_of(operation))
    IN  IF max = NoneOpt THEN {} ELSE {max[1], max[1] + 1}

\* a typed operation called on the handle itself
Request ==
    /\ pc = "idle"
    /\ ~cfg.bridged
    /\ \E operation \in Operations, overflow_checks \in BOOLEAN :
          \E count \in EventCounts \cup BoundaryCounts(operation) :
             StartRequest(operation, count, overflow_checks, bridge, 0)

\* what an attempt sends and waits for, and the chain it leaves behind
Attempt ==
    [bytes |-> msg, expected_checksum |-> expected_checksum, parent |-> parent,
     request_number |-> request_number]

\* a hedge that lets a failure on the backup fail the attempt
send_outcome_strict(primary_up, primary_sent, backup_up, backup_sent) ==
    IF primary_up /\ primary_sent /\ backup_up /\ backup_sent
    THEN "Ok" ELSE "Connection"

\* send_with_hedging: `?` on the primary's connect and send, the backup's
\* results dropped
send_outcome(primary_up, primary_sent, backup_up, backup_sent) ==
    IF primary_up /\ primary_sent THEN "Ok" ELSE "Connection"

\* gen_range(1..replica_count)
BackupOffsets(replica_count) == 1 .. (replica_count - 1)

\* a hedge that may pick the primary again
backup_index_any(primary, backup_offset, replica_count) ==
    (primary + backup_offset - 1) % replica_count

backup_index(primary, backup_offset, replica_count) ==
    (primary + backup_offset) % replica_count

\* Client::send_with_hedging, one attempt of send_request_with_retry
SendWithHedging ==
    /\ pc = "send"
    /\ \E primary_connects, primary_sends, backup_connects, backup_sends \in BOOLEAN,
          backup_offset \in (IF cfg.replica_count > 1
                             THEN BackupOffsets(cfg.replica_count) ELSE {0}) :
          LET primary   == primary_index
              up        == connections[primary] = "Connected" \/ primary_connects
              c1        == IF up THEN [connections EXCEPT ![primary] = "Connected"]
                           ELSE connections
              sent      == up /\ primary_sends
              hedged    == sent /\ cfg.replica_count > 1
              backup    == backup_index(primary, backup_offset, cfg.replica_count)
              backup_up == hedged /\ (c1[backup] = "Connected" \/ backup_connects)
              c2        == IF backup_up THEN [c1 EXCEPT ![backup] = "Connected"]
                           ELSE c1
              hedge     == [seen |-> TRUE, primary |-> primary, primary_ok |-> sent,
                            to_primary |-> IF up THEN <<msg>> ELSE <<>>,
                            backup |-> IF hedged THEN <<backup>> ELSE <<>>,
                            to_backup |-> IF backup_up THEN <<msg>> ELSE <<>>,
                            backup_failed |-> hedged /\ ~(backup_up /\ backup_sends)]
          IN  IF send_outcome(up, primary_sends, backup_up, backup_sends) # "Ok"
              THEN /\ Return([kind |-> "Connection"], bridge, bridge.cur)
                   /\ hist' = [Returned(hist, [kind |-> "Connection"])
                                  EXCEPT !.hedge = hedge]
                   /\ connections' = c2
                   /\ UNCHANGED <<cfg, session_vars, available, quarantine>>
              ELSE /\ connections' = c2
                   /\ attempts' = attempts + 1
                   /\ pc' = "wait"
                   /\ hist' = [hist EXCEPT !.sent = @ \cup {Attempt},
                                           !.asked = NoAsk,
                                           !.hedge = hedge,
                                           !.obs = NoObs]
                   /\ UNCHANGED <<cfg, session_vars, available, quarantine, msg,
                                  expected_checksum, in_register, timeout, result,
                                  bridge>>

\* send_request_with_retry, lines 445-447: the timeout doubles up to the
\* maximum; the jitter is drawn from 0 .. timeout_ms / 4, a range that
\* gen_range refuses when it is empty
\* a backoff that doubles without a ceiling
Backoff_uncapped(t, max) == t * 2

Backoff(t, max) == IF t * 2 < max THEN t * 2 ELSE max

Jitters(t) == 0 .. (t \div 4 - 1)

\* the last thing the wait saw was its timer running out
TimedOut == [seen |-> FALSE, timed_out |-> TRUE]

\* a retry that builds the request again from the session
WaitTimeoutRebuilds ==
    /\ pc = "wait"
    /\ attempts < MaxAttempts
    /\ Jitters(Backoff(timeout, cfg.request_timeout_max)) # {}
    /\ \E m \in {RequestBuilder(cfg.cluster, cfg.id, session, request_number, parent,
                                 as_request(msg.header).operation, CLIENT_RELEASE,
                                 view, msg.body)} :
          /\ msg' = m
          /\ expected_checksum' = m.header.checksum
          /\ parent' = m.header.checksum
    /\ request_number' = (request_number + 1) % (RequestNumberMax + 1)
    /\ pc' = "send"
    /\ timeout' = Backoff(timeout, cfg.request_timeout_max)
    /\ hist' = [hist EXCEPT !.obs = TimedOut, !.hedge = NoHedge]
    /\ UNCHANGED <<cfg, state, view, session, batch_size_limit, connections,
                   available, quarantine, in_register, attempts, result, bridge>>

\* wait_for_reply: the timer has run out; send_request_with_retry backs off
WaitTimeout ==
    /\ pc = "wait"
    /\ attempts < MaxAttempts
    /\ LET t == Backoff(timeout, cfg.request_timeout_max)
       IN  IF Jitters(t) = {}
           THEN /\ Panic(bridge, bridge.cur)      \* cannot sample empty range
                /\ hist' = [hist EXCEPT !.obs = TimedOut, !.hedge = NoHedge]
                /\ UNCHANGED <<cfg, session_vars, connections, available, quarantine>>
           ELSE \E jitter \in Jitters(t) :
                   /\ timeout' = t + jitter
                   /\ pc' = "send"
                   /\ hist' = [hist EXCEPT !.obs = TimedOut, !.hedge = NoHedge]
                   /\ UNCHANGED <<cfg, session_vars, connections, available,
                                  quarantine, msg, expected_checksum, in_register,
                                  attempts, result, bridge>>

\* wait_for_reply: the read on the primary fails
WaitRecvError ==
    /\ pc = "wait"
    /\ LET a == acquire(available, quarantine)
       IN  /\ available' = a.available        \* the buffer goes down with recv
           /\ quarantine' = a.quarantine
    /\ connections' = disconnect(connections, primary_index)
    /\ Return([kind |-> "Connection"], bridge, bridge.cur)
    /\ hist' = Returned(hist, [kind |-> "Connection"])
    /\ UNCHANGED <<cfg, session_vars>>

\* what a read delivered, told from how the sender made it (sealed: the header
\* tag was stamped right; body_sealed: the body tag was)
Observe(data, expected, self_id) ==
    LET full      == data.n >= HEADER_SIZE
        header_ok == full /\ data.sealed
    IN  [seen |-> TRUE, n |-> data.n, full |-> full, header_ok |-> header_ok,
         wrong_reply |-> /\ header_ok
                         /\ data.header.command = CommandReply
                         /\ \/ as_reply(data.header).request_checksum # expected
                            \/ as_reply(data.header).client # self_id,
         command |-> IF full THEN data.header.command ELSE 0,
         \* the read holds the whole message the header announces
         complete |-> /\ full
                      /\ data.header.size >= HEADER_SIZE
                      /\ data.header.size <= data.n,
         body_len |-> IF full THEN data.header.size - HEADER_SIZE ELSE 0,
         body_ok |-> data.body_sealed,
         replica |-> primary_index]

\* Client::register and Client::request after send_request_with_retry returned reply
Accept(reply, h) ==
    IF in_register
    THEN IF reply.body.len < RegisterResultSize
         THEN /\ Return([kind |-> "Protocol", error |-> "InvalidSize"], bridge, bridge.cur)
              /\ hist' = Done(h)
              /\ UNCHANGED session_vars
         ELSE /\ batch_size_limit' = Some(reply.body.words[1])
              /\ session' = SessionOnRegister(reply)
              /\ parent' = ParentOnReply(reply)
              /\ request_number' = 1
              /\ state' = "Ready"
              /\ Return([kind |-> "Ok", body |-> EmptyBytes], bridge, bridge.cur)
              /\ hist' = [Done(h) EXCEPT !.accepted = <<reply>>]
              /\ UNCHANGED view
    ELSE /\ parent' = ParentOnReply(reply)
         /\ view' = ViewOnReply(view, reply)
         /\ Return([kind |-> "Ok", body |-> reply.body], bridge, bridge.cur)
         /\ hist' = [Done(h) EXCEPT !.accepted = <<reply>>]
         /\ UNCHANGED <<state, session, request_number, batch_size_limit>>

\* wait_for_reply: one read on the primary and what try_parse_reply makes of it
WaitRecv ==
    /\ pc = "wait"
    /\ \E data \in Received[expected_checksum] :
          \E r \in {try_parse_reply(data, expected_checksum, cfg.id)} :
          \E a \in {acquire(available, quarantine)} :
          LET buf == [a.buf EXCEPT !.len = data.n]
              p   == release(a.available, a.quarantine, buf)
              h   == [hist EXCEPT !.obs = Observe(data, expected_checksum, cfg.id),
                                      !.hedge = NoHedge]
          IN  IF r.tag = "Panic"
              THEN /\ Panic(bridge, bridge.cur)
                   /\ available' = a.available
                   /\ quarantine' = a.quarantine
                   /\ hist' = h
                   /\ UNCHANGED <<cfg, session_vars, connections>>
              ELSE /\ available' = p.available
                   /\ quarantine' = p.quarantine
                   /\ UNCHANGED cfg
                   /\ CASE r.tag \in {"NeedMoreData", "WrongReply"} ->
                             /\ hist' = h
                             /\ UNCHANGED <<session_vars, connections, pc, msg,
                                            expected_checksum, in_register, attempts,
                                            timeout, result, bridge>>
                        [] r.tag = "Evicted" ->
                             /\ Return([kind |-> "Evicted", reason |-> r.reason],
                                       bridge, bridge.cur)
                             /\ hist' = Done(h)
                             /\ UNCHANGED <<session_vars, connections>>
                        [] r.tag = "Protocol" ->
                             /\ connections' = disconnect(connections, primary_index)
                             /\ Return([kind |-> "Protocol", error |-> r.error],
                                       bridge, bridge.cur)
                             /\ hist' = Done(h)
                             /\ UNCHANGED session_vars
                        [] r.tag = "Ok" ->
                             /\ Accept(r.msg, h)
                             /\ UNCHANGED connections

\* the observations left by close: how many buffers the quarantine held and
\* how many replicas were connected
Closed(quar, conns) ==
    [hist0 EXCEPT !.obs = [seen |-> FALSE, drained |-> Len(quar),
                           connected |-> Cardinality({r \in DOMAIN conns :
                                                        conns[r] = "Connected"})]]

\* Client::close
CloseClient(b) ==
    /\ state' = "Shutdown"
    /\ connections' = [r \in DOMAIN connections |-> "Disconnected"]
    /\ LET p == clear_quarantine(available, quarantine)
       IN  /\ available' = p.available
           /\ quarantine' = p.quarantine
    /\ pc' = "closed"
    /\ result' = [kind |-> "Closed"]
    /\ hist' = Closed(quarantine, connections)
    /\ bridge' = b
    /\ UNCHANGED <<cfg, view, session, request_number, parent, batch_size_limit,
                   msg, expected_checksum, in_register, attempts, timeout>>

Close ==
    /\ pc = "idle"
    /\ ~cfg.bridged
    /\ CloseClient(bridge)

\* -------------------------------------------------------------- thread bridge
BridgeUp == cfg.bridged /\ state \in {"Ready", "Shutdown"}

\* TigerBeetleClient::create_accounts and its siblings, up to reply_rx.await
Submit ==
    /\ BridgeUp
    /\ bridge.calls < MaxCalls
    /\ \E operation \in Operations, count \in 0 .. MaxElements :
          LET i == bridge.calls + 1
          IN  /\ bridge' =
                    IF bridge.rx_open
                    THEN [bridge EXCEPT
                            !.calls = i, !.replies[i] = "waiting",
                            !.queue = Append(@, [call |-> i, shutdown |-> FALSE,
                                                 operation |-> operation,
                                                 count |-> count])]
                    ELSE [bridge EXCEPT
                            !.calls = i, !.replies[i] = "Connection",
                            !.after_close = IF state = "Shutdown"
                                            THEN @ \cup {"Connection"} ELSE @]
              /\ UNCHANGED <<cfg, session_vars, connections, available, quarantine,
                             pc, msg, expected_checksum, in_register, attempts,
                             timeout, result, hist>>

\* TigerBeetleClient::shutdown
Shutdown ==
    /\ BridgeUp
    /\ bridge.calls < MaxCalls
    /\ LET i == bridge.calls + 1
       IN  bridge' =
              IF bridge.rx_open
              THEN [bridge EXCEPT
                      !.calls = i, !.replies[i] = "sent",
                      !.queue = Append(@, [call |-> 0, shutdown |-> TRUE,
                                           operation |-> 0, count |-> 0])]
              ELSE [bridge EXCEPT !.calls = i, !.replies[i] = "ignored"]
    /\ UNCHANGED <<cfg, session_vars, connections, available, quarantine, pc, msg,
                   expected_checksum, in_register, attempts, timeout, result, hist>>

\* run_client_loop: rx.recv() hands over the next request
LoopRecv ==
    /\ cfg.bridged
    /\ pc = "idle"
    /\ bridge.rx_open
    /\ bridge.queue # <<>>
    /\ LET head == Head(bridge.queue)
           b    == [bridge EXCEPT !.queue = Tail(@)]
       IN  IF head.shutdown
           THEN CloseClient(ThreadDied(b, 0))
           ELSE \E overflow_checks \in BOOLEAN :
                   StartRequest(head.operation, head.count, overflow_checks, b,
                                head.call)

\* ------------------------------------------------------------- specifications
Next ==
    \/ RegisterStart
    \/ Request
    \/ SendWithHedging
    \/ WaitTimeout
    \/ WaitRecvError
    \/ WaitRecv
    \/ Close

Spec == Init /\ [][Next]_vars

NextBridge ==
    \/ RegisterStart
    \/ Submit
    \/ Shutdown
    \/ LoopRecv
    \/ SendWithHedging
    \/ WaitTimeout
    \/ WaitRecvError
    \/ WaitRecv

SpecBridge == InitBridge /\ [][NextBridge]_vars

\* the caller drops the future of an operation suspended in driver.recv: the
\* buffer wait_for_reply acquired and moved into recv is dropped with it
Cancel ==
    /\ pc = "wait"
    /\ ~cfg.bridged
    /\ \E a \in {acquire(available, quarantine)} :
          /\ available' = a.available
          /\ quarantine' = a.quarantine
    /\ result' = [kind |-> "Cancelled"]
    /\ pc' = IF in_register THEN "dropped" ELSE "idle"
    /\ NoRequest
    /\ hist' = Returned(hist, [kind |-> "Cancelled"])
    /\ UNCHANGED <<cfg, session_vars, connections, bridge>>

NextCancel ==
    \/ RegisterStart
    \/ Request
    \/ SendWithHedging
    \/ WaitTimeout
    \/ WaitRecvError
    \/ WaitRecv
    \/ Cancel
    \/ Close

\* the direct handle, whose caller may drop an operation it is waiting for
SpecCancel == Init /\ [][NextCancel]_vars

\* the values of Client::state
States == {"Disconnected", "Registering", "Ready", "Shutdown"}

\* Client::request as a handler: a handle in any state, with any chain, with
\* its connections up or down, on which typed operations are called
InitRequest ==
    /\ cfg \in [id : {1}, cluster : {0}, replica_count : 1 .. MaxReplicas,
                request_timeout : RequestTimeouts,
                request_timeout_max : {RequestTimeoutMax}, bridged : {FALSE}]
    /\ state \in States
    /\ view \in 0 .. MaxView
    /\ session \in {0} \cup Commits
    /\ request_number \in 0 .. 1
    /\ parent \in Checksums
    /\ batch_size_limit \in {NoneOpt, Some(AccountSize \div 2), Some(HEADER_SIZE),
                            Some(MESSAGE_SIZE_MAX - HEADER_SIZE), Some(MESSAGE_SIZE_MAX),
                            Some(SizeMax)}
    /\ connections \in [0 .. (cfg.replica_count - 1) -> {"Disconnected", "Connected"}]
    /\ available = [i \in 1 .. (cfg.replica_count + 2) |-> OwnedBuf_with_capacity]
    /\ quarantine = <<>>
    /\ pc = "idle"
    /\ msg = NoMsg
    /\ expected_checksum = 0
    /\ in_register = FALSE
    /\ attempts = 0
    /\ timeout = 0
    /\ result = Pending
    /\ hist = hist0
    /\ bridge = bridge0

SpecRequest == InitRequest /\ [][Request]_vars

\* Client::register as a handler: register is called on a handle in any state
\* (by build on the handle it has just made, state Disconnected, or on a handle
\* that has been registered before); whatever handle comes back is then used
InitRegister ==
    /\ cfg \in [id : {1}, cluster : {0}, replica_count : 1 .. MaxReplicas,
                request_timeout : RequestTimeouts,
                request_timeout_max : {RequestTimeoutMax}, bridged : {FALSE}]
    /\ state \in States
    /\ view = 0
    /\ session \in IF state \in {"Disconnected", "Registering"} THEN {0} ELSE Commits
    /\ request_number = IF state \in {"Disconnected", "Registering"} THEN 0 ELSE 1
    /\ parent = 0
    /\ batch_size_limit = IF state \in {"Disconnected", "Registering"} THEN NoneOpt
                          ELSE Some(MESSAGE_SIZE_MAX - HEADER_SIZE)
    /\ connections \in
          IF state = "Ready"
          THEN [0 .. (cfg.replica_count - 1) -> {"Disconnected", "Connected"}]
          ELSE {[r \in 0 .. (cfg.replica_count - 1) |-> "Disconnected"]}
    /\ available = [i \in 1 .. (cfg.replica_count + 2) |-> OwnedBuf_with_capacity]
    /\ quarantine = <<>>
    /\ pc = "build"
    /\ msg = NoMsg
    /\ expected_checksum = 0
    /\ in_register = FALSE
    /\ attempts = 0
    /\ timeout = 0
    /\ result = Pending
    /\ hist = hist0
    /\ bridge = bridge0

SpecRegister == InitRegister /\ [][Next]_vars

\* wait_for_reply: the read on the primary starts with a whole, rightly
\* stamped Reply to the pending request
WaitRecvReply ==
    /\ WaitRecv
    /\ hist'.obs.seen
    /\ hist'.obs.header_ok
    /\ hist'.obs.command = CommandReply
    /\ ~hist'.obs.wrong_reply
    /\ hist'.obs.complete
    /\ hist'.obs.body_ok

\* the client under a cluster that answers: a request that is to be sent is
\* sent, and a primary that is read again and again delivers the reply
SpecLive ==
    /\ Init
    /\ [][Next]_vars
    /\ WF_vars(SendWithHedging)
    /\ SF_vars(WaitRecvReply)

\* the largest request_timeout and request_timeout_max configured, ms
MaxTimeoutMs == 20

\* send_request_with_retry as a handler: a Ready handle configured with any
\* request_timeout and request_timeout_max, entering the retry loop with the
\* request of one account it has just built
InitRetry ==
    /\ cfg \in [id : {1}, cluster : {0}, replica_count : 1 .. MaxReplicas,
                request_timeout : 1 .. MaxTimeoutMs,
                request_timeout_max : 1 .. MaxTimeoutMs, bridged : {FALSE}]
    /\ state = "Ready"
    /\ view = 0
    /\ session \in Commits
    /\ request_number = 2
    /\ batch_size_limit = Some(HEADER_SIZE)
    /\ connections = [r \in 0 .. (cfg.replica_count - 1) |-> "Connected"]
    /\ available = [i \in 1 .. (cfg.replica_count + 2) |-> OwnedBuf_with_capacity]
    /\ quarantine = <<>>
    /\ pc = "send"
    /\ msg = RequestBuilder(cfg.cluster, cfg.id, session, 1, 0, OperationCreateAccounts,
                            CLIENT_RELEASE, view, encoded_body(AccountSize, AccountSize))
    /\ expected_checksum = msg.header.checksum
    /\ parent = msg.header.checksum
    /\ in_register = FALSE
    /\ attempts = 0
    /\ timeout = cfg.request_timeout
    /\ result = Pending
    /\ hist = [hist0 EXCEPT
                  !.built = <<[checksum |-> msg.header.checksum,
                               request |-> as_request(msg.header).request,
                               operation |-> as_request(msg.header).operation,
                               after_reply |-> TRUE, after_evicted |-> FALSE]>>]
    /\ bridge = bridge0

NextRetry ==
    \/ SendWithHedging
    \/ WaitTimeout

SpecRetry == InitRetry /\ [][NextRetry]_vars

\* ----------------------------------------------------------------- buffer pool
\* BufferPool on its own: callers acquire buffers, fill them, poison them
\* (OwnedBuf::poison), release them, and drain the quarantine.  hist.held is
\* what the callers hold, hist.from where the last acquire took its buffer.
pool_rest ==
    <<cfg, state, view, session, request_number, parent, batch_size_limit,
      connections, pc, msg, expected_checksum, in_register, attempts, timeout,
      result, bridge>>

\* BufferPool::new(count, MESSAGE_SIZE_MAX) in a handle not yet registered
InitPool ==
    /\ cfg \in [id : {1}, cluster : {0}, replica_count : 1 .. MaxReplicas,
                request_timeout : {2}, request_timeout_max : {RequestTimeoutMax},
                bridged : {FALSE}]
    /\ state = "Disconnected"
    /\ view = 0
    /\ session = 0
    /\ request_number = 0
    /\ parent = 0
    /\ batch_size_limit = NoneOpt
    /\ connections = [r \in 0 .. (cfg.replica_count - 1) |-> "Disconnected"]
    /\ available = [i \in 1 .. (cfg.replica_count + 2) |-> OwnedBuf_with_capacity]
    /\ quarantine = <<>>
    /\ pc = "pool"
    /\ msg = NoMsg
    /\ expected_checksum = 0
    /\ in_register = FALSE
    /\ attempts = 0
    /\ timeout = 0
    /\ result = Pending
    /\ hist = [held |-> <<>>, from |-> "none"]
    /\ bridge = bridge0

\* the sequence without its i-th element
Without(seq, i) == SubSeq(seq, 1, i - 1) \o SubSeq(seq, i + 1, Len(seq))

\* BufferPool::acquire, called by a caller that will hold the buffer
PoolAcquire ==
    /\ pc = "pool"
    /\ Len(hist.held) < MaxHeld
    /\ \E a \in {acquire(available, quarantine)} :
          /\ available' = a.available
          /\ quarantine' = a.quarantine
          /\ hist' = [held |-> Append(hist.held, a.buf),
                      from |-> IF a.available # available THEN "available"
                               ELSE IF a.quarantine # quarantine THEN "quarantine"
                               ELSE "fresh"]
    /\ UNCHANGED pool_rest

\* OwnedBuf::set_len after a read into a held buffer
PoolSetLen ==
    /\ pc = "pool"
    /\ \E i \in 1 .. Len(hist.held) :
          /\ hist.held[i].len = 0
          /\ hist' = [hist EXCEPT !.held[i].len = ReadSize, !.from = "none"]
    /\ UNCHANGED <<pool_rest, available, quarantine>>

\* OwnedBuf::poison on a held buffer
PoolPoison ==
    /\ pc = "pool"
    /\ \E i \in 1 .. Len(hist.held) :
          /\ ~hist.held[i].poisoned
          /\ hist' = [hist EXCEPT !.held[i].poisoned = TRUE, !.from = "none"]
    /\ UNCHANGED <<pool_rest, available, quarantine>>

\* BufferPool::release of a held buffer
PoolRelease ==
    /\ pc = "pool"
    /\ \E i \in 1 .. Len(hist.held) :
          \E p \in {release(available, quarantine, hist.held[i])} :
             /\ available' = p.available
             /\ quarantine' = p.quarantine
             /\ hist' = [held |-> Without(hist.held, i), from |-> "none"]
    /\ UNCHANGED pool_rest

\* BufferPool::clear_quarantine
PoolClearQuarantine ==
    /\ pc = "pool"
    /\ quarantine # <<>>
    /\ \E p \in {clear_quarantine(available, quarantine)} :
          /\ available' = p.available
          /\ quarantine' = p.quarantine
    /\ hist' = [hist EXCEPT !.from = "none"]
    /\ UNCHANGED pool_rest

NextPool ==
    \/ PoolAcquire
    \/ PoolSetLen
    \/ PoolPoison
    \/ PoolRelease
    \/ PoolClearQuarantine

SpecPool == InitPool /\ [][NextPool]_vars

\* a registered handle with its connections up or down, whose pool is used as
\* above and which is then closed
InitClose ==
    /\ cfg \in [id : {1}, cluster : {0}, replica_count : 1 .. MaxReplicas,
                request_timeout : {2}, request_timeout_max : {RequestTimeoutMax},
                bridged : {FALSE}]
    /\ state = "Ready"
    /\ view = 0
    /\ session \in Commits
    /\ request_number = 1
    /\ parent = 0
    /\ batch_size_limit = Some(HEADER_SIZE)
    /\ connections \in [0 .. (cfg.replica_count - 1) -> {"Disconnected", "Connected"}]
    /\ available = [i \in 1 .. (cfg.replica_count + 2) |-> OwnedBuf_with_capacity]
    /\ quarantine = <<>>
    /\ pc = "pool"
    /\ msg = NoMsg
    /\ expected_checksum = 0
    /\ in_register = FALSE
    /\ attempts = 0
    /\ timeout = 0
    /\ result = Pending
    /\ hist = [held |-> <<>>, from |-> "none"]
    /\ bridge = bridge0

\* Client::close on that handle
PoolClose ==
    /\ pc = "pool"
    /\ CloseClient(bridge)

NextClose ==
    \/ PoolAcquire
    \/ PoolSetLen
    \/ PoolPoison
    \/ PoolRelease
    \/ PoolClearQuarantine
    \/ PoolClose

SpecClose == InitClose /\ [][NextClose]_vars

\* ----------------------------------------------------------- multi-batch bytes
\* A byte string is kept as its runs of equal bytes, in order, no run empty and
\* no two neighbours of the same byte: equal strings have equal run lists.
Fill(byte, n) == IF n = 0 THEN <<>> ELSE <<[byte |-> byte, count |-> n]>>

Concat(a, b) ==
    IF a = <<>> THEN b
    ELSE IF b = <<>> THEN a
    ELSE IF a[Len(a)].byte = b[1].byte
    THEN SubSeq(a, 1, Len(a) - 1)
            \o <<[byte |-> b[1].byte, count |-> a[Len(a)].count + b[1].count]>>
            \o Tail(b)
    ELSE a \o b

RECURSIVE ByteLen(_)
ByteLen(s) == IF s = <<>> THEN 0 ELSE s[1].count + ByteLen(Tail(s))

\* s[..n]
RECURSIVE Take(_, _)
Take(s, n) ==
    IF n = 0 \/ s = <<>> THEN <<>>
    ELSE IF s[1].count <= n THEN <<s[1]>> \o Take(Tail(s), n - s[1].count)
    ELSE <<[byte |-> s[1].byte, count |-> n]>>

\* s[n..]
RECURSIVE Drop(_, _)
Drop(s, n) ==
    IF n = 0 \/ s = <<>> THEN s
    ELSE IF s[1].count <= n THEN Drop(Tail(s), n - s[1].count)
    ELSE <<[byte |-> s[1].byte, count |-> s[1].count - n]>> \o Tail(s)

\* s[i], offsets from 0
RECURSIVE ByteAt(_, _)
ByteAt(s, i) == IF i < s[1].count THEN s[1].byte ELSE ByteAt(Tail(s), i - s[1].count)

\* buffer[offset .. offset + len(bytes)].copy_from_slice(bytes)
CopyFromSlice(buffer, offset, bytes) ==
    Concat(Concat(Take(buffer, offset), bytes), Drop(buffer, offset + ByteLen(bytes)))

\* u16::to_le_bytes and u16::from_le_bytes
to_le_bytes(v) == Concat(Fill(v % 256, 1), Fill(v \div 256, 1))

from_be_bytes(b0, b1) == b0 * 256 + b1

from_le_bytes(b0, b1) == b0 + b1 * 256

\* `as u16`
AsU16(v) == v % 65536

\* multi_batch::encode; byte lengths stay below 2^31 here, where `as u32`
\* changes nothing
encode(buffer, events, element_size) ==
    LET events_len    == ByteLen(events)
        element_count == IF element_size = 0 THEN 0
                         ELSE AsU16(events_len \div element_size)
        batch_count   == 1
        trailer_size  == trailer_total_size(element_size, batch_count)
        total_size    == events_len + trailer_size
        copied        == CopyFromSlice(buffer, 0, events)
        filled        == CopyFromSlice(copied, events_len, Fill(255, trailer_size))
        postamble_offset == total_size - 2
        with_postamble == CopyFromSlice(filled, postamble_offset, to_le_bytes(batch_count))
        trailer_item_offset == postamble_offset - 2
    IN  IF ByteLen(buffer) < total_size
        THEN [tag |-> "Panic"]
        ELSE [tag |-> "Ok", size |-> total_size,
              buffer |-> CopyFromSlice(with_postamble, trailer_item_offset,
                                       to_le_bytes(element_count))]

\* a decoder that takes the trailer to hold one batch whatever it says
decode_one_batch(data, element_size) ==
    LET data_len == ByteLen(data)
    IN  IF data_len < trailer_total_size(element_size, 1) THEN <<>>
        ELSE Take(data, data_len - trailer_total_size(element_size, 1))

\* multi_batch::decode
decode(data, element_size) ==
    LET data_len == ByteLen(data)
    IN  IF data_len < 2 THEN <<>>
        ELSE LET batch_count == from_le_bytes(ByteAt(data, data_len - 2),
                                              ByteAt(data, data_len - 1))
             IN  IF batch_count = 0 THEN <<>>
                 ELSE LET trailer_size == trailer_total_size(element_size, batch_count)
                      IN  IF data_len < trailer_size THEN <<>>
                          ELSE Take(data, data_len - trailer_size)

\* the element sizes and element counts of the round-trip property, and the
\* counts at which element_count stops fitting its two bytes
ElementSizes == {8, 16, 64, 128}

ElementCounts == {0, 1, 2, 64, 8189, 65535, 65536}

\* payloads of n bytes: one byte repeated, or a payload ending in 0xFF bytes
Payloads(n) ==
    {Fill(b, n) : b \in {0, 171, 255}}
       \cup {Concat(Fill(1, n \div 2), Fill(255, n - (n \div 2)))}

\* what callers of encode pass: events of whole elements or with a partial
\* element at the end, and a zeroed buffer that is too short by one byte,
\* exact, or longer
EncodeInputs ==
    UNION {UNION {UNION {{[element_size |-> es, events |-> p,
                           buffer |-> Fill(0, n + trailer_total_size(es, 1) + slack)] :
                              p \in Payloads(n)} :
                        slack \in {-1, 0, 256}} :
                 n \in {es * c + extra : c \in ElementCounts, extra \in {0, 3}}} :
           es \in ElementSizes}

\* what callers of decode pass besides encoder output: short buffers, and
\* payloads followed by a trailer item and a postamble of any batch_count
DecodeInputs ==
    UNION {{[element_size |-> es, data |-> Fill(b, n)] : b \in {0, 1, 255}, n \in 0 .. 3}
              \cup {[element_size |-> es,
                     data |-> Concat(Concat(Concat(Fill(66, n), Fill(255, pad)),
                                            to_le_bytes(count)), to_le_bytes(batches))] :
                       n \in {0, es, es + 4}, pad \in {0, 4, es - 4, 2 * es - 4},
                       count \in {0, 1}, batches \in {0, 1, 2, 4, 256}} :
           es \in ElementSizes \cup {0, 1}}

codec_rest ==
    <<cfg, state, view, session, request_number, parent, batch_size_limit,
      connections, available, quarantine, msg, expected_checksum, in_register,
      attempts, timeout, result, bridge>>

\* callers of the codec, outside any handle
InitCodec ==
    /\ cfg \in [id : {1}, cluster : {0}, replica_count : {1},
                request_timeout : {2}, request_timeout_max : {RequestTimeoutMax},
                bridged : {FALSE}]
    /\ state = "Disconnected"
    /\ view = 0
    /\ session = 0
    /\ request_number = 0
    /\ parent = 0
    /\ batch_size_limit = NoneOpt
    /\ connections = [r \in 0 .. (cfg.replica_count - 1) |-> "Disconnected"]
    /\ available = <<>>
    /\ quarantine = <<>>
    /\ pc \in {"encode", "decode"}
    /\ msg = NoMsg
    /\ expected_checksum = 0
    /\ in_register = FALSE
    /\ attempts = 0
    /\ timeout = 0
    /\ result = Pending
    /\ IF pc = "encode"
       THEN \E i \in EncodeInputs :
               hist = [element_size |-> i.element_size, events |-> i.events,
                       buffer |-> i.buffer, encoded |-> FALSE, size |-> 0,
                       data |-> <<>>, decoded |-> FALSE, payload |-> <<>>]
       ELSE \E i \in DecodeInputs :
               hist = [element_size |-> i.element_size, events |-> <<>>,
                       buffer |-> <<>>, encoded |-> FALSE, size |-> 0,
                       data |-> i.data, decoded |-> FALSE, payload |-> <<>>]
    /\ bridge = bridge0

\* let size = encode(&mut buffer, &events, element_size); the caller goes on
\* with &buffer[..size]
CodecEncode ==
    /\ pc = "encode"
    /\ \E e \in {encode(hist.buffer, hist.events, hist.element_size)} :
          IF e.tag = "Panic"
          THEN /\ pc' = "panicked"
               /\ result' = [kind |-> "Panic"]
               /\ UNCHANGED hist
          ELSE /\ pc' = "decode"
               /\ hist' = [hist EXCEPT !.buffer = e.buffer, !.encoded = TRUE,
                                       !.size = e.size,
                                       !.data = Take(e.buffer, e.size)]
               /\ UNCHANGED result
    /\ UNCHANGED <<cfg, state, view, session, request_number, parent,
                   batch_size_limit, connections, available, quarantine, msg,
                   expected_checksum, in_register, attempts, timeout, bridge>>

\* let payload = decode(&data, element_size)
CodecDecode ==
    /\ pc = "decode"
    /\ pc' = "decoded"
    /\ hist' = [hist EXCEPT !.decoded = TRUE,
                            !.payload = decode(hist.data, hist.element_size)]
    /\ UNCHANGED codec_rest

\* the sizes of the result types of the typed operations: CreateAccountsResult
\* and CreateTransfersResult; Account, Transfer and AccountBalance
ResultSizes == {8, 128}

\* parse_results::<R> with size_of::<R>() = size: the whole elements, copied
parse_results(data, size) ==
    LET count == ByteLen(data) \div size
    IN  [kind |-> "Ok", count |-> count, bytes |-> Take(data, count * size)]

\* Ok(parse_results(payload)), the end of create_accounts and its siblings
CodecParseResults ==
    /\ pc = "decoded"
    /\ hist.element_size \in ResultSizes
    /\ pc' = "parsed"
    /\ result' = parse_results(hist.payload, hist.element_size)
    /\ UNCHANGED <<cfg, state, view, session, request_number, parent,
                   batch_size_limit, connections, available, quarantine, msg,
                   expected_checksum, in_register, attempts, timeout, bridge, hist>>

NextCodec ==
    \/ CodecEncode
    \/ CodecDecode
    \/ CodecParseResults

SpecCodec == InitCodec /\ [][NextCodec]_vars

\* ------------------------------------------------------------ message checksums
\* Message::finalize and Message::validate on their own.  The tags here are
\* those of a checksum without collisions: the tag of a content is the content.
IdealTag(words) == words

\* Message::finalize
Message_finalize(m) ==
    LET with_body == [m.header EXCEPT !.checksum_body = IdealTag(m.body)]
    IN  [m EXCEPT !.header = [with_body EXCEPT
                                 !.checksum = IdealTag(HeaderTail(with_body))]]

\* a validation that looks at the body first
validate_body_first(m) ==
    IF m.header.checksum_body # IdealTag(m.body) THEN "InvalidBodyChecksum"
    ELSE IF m.header.checksum # IdealTag(HeaderTail(m.header))
    THEN "InvalidHeaderChecksum"
    ELSE "Ok"

\* Message::validate
validate(m) ==
    IF m.header.checksum # IdealTag(HeaderTail(m.header)) THEN "InvalidHeaderChecksum"
    ELSE IF m.header.checksum_body # IdealTag(m.body) THEN "InvalidBodyChecksum"
    ELSE "Ok"

\* the longest body, in bytes, of the messages built here
MaxBodyLen == 2

ByteValues == {0, 1, 255}

\* the fields in bytes 16..256 of the header
HeaderFields ==
    {"checksum_body", "cluster", "size", "view", "release", "command", "overlay"}

\* Message::new, header_mut().cluster = .., set_body(..)
NewMessages ==
    {[header |-> [checksum |-> <<>>, checksum_body |-> <<>>, cluster |-> cluster,
                  size |-> HEADER_SIZE + Len(body), view |-> 0, release |-> 0,
                  command |-> command, overlay |-> <<0, 0, 0, 0, 0>>],
      body |-> body] :
        cluster \in {0, 12345}, command \in {0, CommandRequest},
        body \in UNION {[1 .. n -> ByteValues] : n \in 0 .. MaxBodyLen}}

message_rest ==
    <<cfg, state, view, session, request_number, parent, batch_size_limit,
      connections, available, quarantine, msg, expected_checksum, in_register,
      attempts, timeout, bridge>>

InitMessage ==
    /\ cfg \in [id : {1}, cluster : {0}, replica_count : {1},
                request_timeout : {2}, request_timeout_max : {RequestTimeoutMax},
                bridged : {FALSE}]
    /\ state = "Disconnected"
    /\ view = 0
    /\ session = 0
    /\ request_number = 0
    /\ parent = 0
    /\ batch_size_limit = NoneOpt
    /\ connections = [r \in 0 .. (cfg.replica_count - 1) |-> "Disconnected"]
    /\ available = <<>>
    /\ quarantine = <<>>
    /\ pc = "message"
    /\ msg = NoMsg
    /\ expected_checksum = 0
    /\ in_register = FALSE
    /\ attempts = 0
    /\ timeout = 0
    /\ result = Pending
    /\ \E m \in NewMessages : hist = [message |-> m, finalized |-> <<>>]
    /\ bridge = bridge0

\* msg.finalize()
MessageFinalize ==
    /\ pc = "message"
    /\ hist.finalized = <<>>
    /\ \E m \in {Message_finalize(hist.message)} :
          hist' = [message |-> m, finalized |-> <<m>>]
    /\ UNCHANGED <<message_rest, pc, result>>

\* msg.as_bytes_mut()[HEADER_SIZE + i] = v, another value than it held: once
CorruptBody ==
    /\ pc = "message"
    /\ hist.finalized # <<>>
    /\ hist.message.body = hist.finalized[1].body
    /\ \E i \in 1 .. Len(hist.message.body), v \in ByteValues :
          /\ v # hist.message.body[i]
          /\ hist' = [hist EXCEPT !.message.body[i] = v]
    /\ UNCHANGED <<message_rest, pc, result>>

\* a byte of one field in bytes 16..256 of the header takes another value: once
CorruptHeader ==
    /\ pc = "message"
    /\ hist.finalized # <<>>
    /\ HeaderTail(hist.message.header) = HeaderTail(hist.finalized[1].header)
    /\ \E f \in HeaderFields :
          hist' = [hist EXCEPT
                     !.message.header =
                        CASE f = "checksum_body" -> [@ EXCEPT !.checksum_body = <<255>> \o @]
                          [] f = "cluster" -> [@ EXCEPT !.cluster = @ + 1]
                          [] f = "size" -> [@ EXCEPT !.size = @ + 1]
                          [] f = "view" -> [@ EXCEPT !.view = @ + 1]
                          [] f = "release" -> [@ EXCEPT !.release = @ + 1]
                          [] f = "command" -> [@ EXCEPT !.command = @ + 1]
                          [] f = "overlay" -> [@ EXCEPT !.overlay[1] = @ + 1]]
    /\ UNCHANGED <<message_rest, pc, result>>

\* msg.validate()
MessageValidate ==
    /\ pc = "message"
    /\ pc' = "validated"
    /\ result' = [kind |-> validate(hist.message)]
    /\ UNCHANGED <<message_rest, hist>>

NextMessage ==
    \/ MessageFinalize
    \/ CorruptBody
    \/ CorruptHeader
    \/ MessageValidate

SpecMessage == InitMessage /\ [][NextMessage]_vars

\* -------------------------------------------------------------------- claims
\* a request of Client::request is out: built, and sent or about to be
InFlight == pc \in {"send", "wait"} /\ ~in_register

\* the request that is out, as its header reads
Carried == as_request(msg.header)

\* the request built last has failed with an error of the wire
Failed == pc = "idle" /\ result.kind \in {"Connection", "Protocol", "Evicted"}

\* the step in which Client::request builds a request and advances the chain
BuildsRequest == pc = "idle" /\ pc' = "send"

\* C1: while a request is out, and once it has failed with Connection, Protocol
\* or Evicted, the session's parent is that request's header checksum and
\* request_number is exactly one more than the number the request carries.
C1_ChainAdvancedBeforeSend ==
    /\ InFlight => /\ parent = msg.header.checksum
                   /\ request_number = Carried.request + 1
    /\ Failed => /\ parent = hist.built[1].checksum
                 /\ request_number = hist.built[1].request + 1

\* C2 as stated: every request built after another carries as parent the header
\* checksum of the request built before it.
C2_ParentIsPreviousChecksum ==
    [][BuildsRequest =>
          as_request(msg'.header).parent = hist.built[1].checksum]_vars

\* C2 amended: a request built after another carries as parent the header
\* checksum of the request built before it when no reply to that request was
\* accepted, and the context of the accepted reply when one was.
C2_ParentFollowsChain ==
    [][BuildsRequest =>
          as_request(msg'.header).parent =
              IF hist.accepted = <<>> THEN hist.built[1].checksum
              ELSE as_reply(hist.accepted[1].header).context]_vars

\* C2 witness: a second or later request is out that was built after a request
\* to which no reply was accepted.
C2_BuiltAfterFailedRequest ==
    /\ InFlight
    /\ Carried.request >= 2
    /\ ~hist.built[1].after_reply

\* C3: when a reply was accepted for the request built before (the register
\* request included), the next request built carries that reply's context as
\* its parent.
C3_ParentIsReplyContext ==
    [][(BuildsRequest /\ hist.accepted # <<>>) =>
          as_request(msg'.header).parent =
              as_reply(hist.accepted[1].header).context]_vars

\* C3 witness: a second or later request is out that was built after the reply
\* to the request before it was accepted.
C3_BuiltAfterAcceptedReply ==
    /\ InFlight
    /\ Carried.request >= 2
    /\ hist.built[1].after_reply

\* C4: request_number is 1 once registration is accepted, and every request
\* built carries a number exactly one greater than the request built before it.
C4_RequestNumberStrictlyIncreases ==
    [][/\ (in_register /\ pc' = "idle") => request_number' = 1
       /\ BuildsRequest =>
             as_request(msg'.header).request = hist.built[1].request + 1]_vars

\* C5: the view never decreases; it changes only in the step that accepts the
\* reply to a request whose header view is greater, and becomes that view; a
\* step that returns an error leaves it alone.
C5_ViewMonotone ==
    [][view' # view =>
          /\ view' > view
          /\ pc = "wait" /\ ~in_register
          /\ result'.kind = "Ok"
          /\ hist'.accepted # <<>>
          /\ hist'.accepted[1].header.view = view']_vars

\* C5 witness: the session has learned a greater view from an accepted reply.
C5_ViewLearned ==
    /\ pc = "idle"
    /\ result.kind = "Ok"
    /\ view > 0

\* C6: every attempt of the operation in flight sent the same bytes and waited
\* for the same expected_checksum, with the same parent and request_number as
\* the session holds now.
C6_RetriesResendSameMessage ==
    pc \in {"send", "wait"} => hist.sent \subseteq {Attempt}

\* C6 witness: a request has timed out and has been sent a second time.
C6_Retried ==
    /\ pc = "wait"
    /\ attempts >= 2
    /\ hist.sent # {}

\* C7: a read that delivers a Reply with a right header tag but another
\* request_checksum or another client leaves the wait going, surfaces nothing,
\* and changes none of parent, request_number, view, session.
C7_WrongReplyDiscarded ==
    [][(pc = "wait" /\ hist'.obs.seen /\ hist'.obs.wrong_reply) =>
          /\ pc' = "wait"
          /\ result' = result
          /\ UNCHANGED <<parent, request_number, view, session, state, msg,
                         expected_checksum>>]_vars

\* C7 witness: the wait goes on after such a reply was read.
C7_WrongReplyRead ==
    /\ pc = "wait"
    /\ hist.obs.seen
    /\ hist.obs.wrong_reply

\* C8: the accepted reply has a right header tag, command Reply, the pending
\* request's checksum as request_checksum, the session id as client, and a
\* right body tag over exactly size - 256 bytes; and a full read whose header
\* tag is wrong ends in InvalidHeaderChecksum whatever its other fields say.
C8_AcceptedReplyIsValid ==
    /\ hist.accepted # <<>> =>
          LET reply == hist.accepted[1]
          IN  /\ reply.header.checksum = calculate_checksum(reply.header)
              /\ reply.header.command = CommandReply
              /\ as_reply(reply.header).request_checksum = hist.built[1].checksum
              /\ as_reply(reply.header).client = cfg.id
              /\ reply.body.len = reply.header.size - HEADER_SIZE
              /\ reply.header.checksum_body = calculate_checksum_body(reply.body)
    /\ (hist.obs.seen /\ hist.obs.full /\ ~hist.obs.header_ok) =>
          result = [kind |-> "Protocol", error |-> "InvalidHeaderChecksum"]

\* C8 witness: a request has returned the body of an accepted reply.
C8_ReplyAccepted ==
    /\ pc = "idle"
    /\ result.kind = "Ok"
    /\ hist.accepted # <<>>
    /\ hist.built[1].request >= 1
    /\ hist.accepted[1].body.len > 0

\* C9: no operation that follows one failed with Evicted returns Ok.
C9_NoSuccessAfterEvicted ==
    [][(hist.built # <<>> /\ hist.built[1].after_evicted) =>
          result'.kind # "Ok"]_vars

\* C10: a call made on the handle after it was shut down surfaces Shutdown.
C10_ShutdownAfterClose == bridge.after_close \subseteq {"Shutdown"}

\* C11: a typed operation called on a handle whose state is not Ready returns
\* NotRegistered, sends nothing (no request is built, the handle stays idle),
\* opens or drops no connection, and leaves parent, request_number, view and
\* session as they were.
C11_NotReadyRejected ==
    [][(pc = "idle" /\ state # "Ready") =>
          /\ result'.kind = "NotRegistered"
          /\ pc' = "idle"
          /\ msg' = NoMsg
          /\ hist'.sent = {}
          /\ UNCHANGED <<parent, request_number, view, session, state,
                         batch_size_limit, connections>>]_vars

\* C11 witness: a call on a handle that is not Ready, and has a connection
\* up, has returned NotRegistered.
C11_CalledWhileNotReady ==
    /\ state \in {"Disconnected", "Registering", "Shutdown"}
    /\ result.kind = "NotRegistered"
    /\ \E r \in DOMAIN connections : connections[r] = "Connected"

\* C12: a call whose payload plus trailer_total_size(element_size, 1) exceeds
\* batch_size_limit returns RequestTooLarge with that total and that limit,
\* builds and sends nothing, and leaves parent, request_number and the
\* connections as they were.
C12_TooLargeRejected ==
    [][(/\ pc = "idle" /\ state = "Ready" /\ batch_size_limit # NoneOpt
        /\ hist'.asked.seen
        /\ hist'.asked.payload_bytes
               + trailer_total_size(hist'.asked.element_size, 1) > batch_size_limit[1]) =>
          /\ result' = [kind |-> "RequestTooLarge",
                        size |-> hist'.asked.payload_bytes
                                   + trailer_total_size(hist'.asked.element_size, 1),
                        limit |-> batch_size_limit[1]]
          /\ pc' = "idle"
          /\ hist'.sent = {}
          /\ UNCHANGED <<parent, request_number, connections>>]_vars

\* C13: no operation returns Timeout, and a wait whose timer runs out is
\* followed by another send of the same request: the retry loop is left only
\* with an accepted reply or with an error other than Timeout.
C13_TimeoutNeverSurfaces ==
    [][/\ result'.kind # "Timeout"
       /\ (pc = "wait" /\ hist'.obs = TimedOut) =>
             /\ pc' = "send"
             /\ msg' = msg
             /\ result' = Pending]_vars

\* the request built last is the register request
RegisterBuilt == hist.built # <<>> /\ hist.built[1].operation = OperationRegister

\* the last read delivered a whole, well-tagged reply to the pending request
GoodReplyRead ==
    /\ hist.obs.seen
    /\ hist.obs.header_ok
    /\ hist.obs.command = CommandReply
    /\ ~hist.obs.wrong_reply
    /\ hist.obs.complete
    /\ hist.obs.body_ok

\* C14: once registration has succeeded the session holds the reply's commit
\* as session, the reply's context as parent, request_number 1, the
\* RegisterResult's batch_size_limit and state Ready; a good register reply
\* whose body is shorter than 64 bytes ends in Protocol(InvalidSize) with none
\* of these set (session 0, request_number 0, no limit, state Registering,
\* parent still the register request's checksum).
C14_RegisterSetsSession ==
    /\ (RegisterBuilt /\ pc = "idle" /\ result.kind = "Ok") =>
          /\ hist.accepted # <<>>
          /\ session = as_reply(hist.accepted[1].header).commit
          /\ parent = as_reply(hist.accepted[1].header).context
          /\ request_number = 1
          /\ hist.accepted[1].body.len >= RegisterResultSize
          /\ batch_size_limit = <<hist.accepted[1].body.words[1]>>
          /\ state = "Ready"
    /\ (RegisterBuilt /\ GoodReplyRead /\ hist.obs.body_len < RegisterResultSize) =>
          /\ result = [kind |-> "Protocol", error |-> "InvalidSize"]
          /\ session = 0
          /\ request_number = 0
          /\ batch_size_limit = NoneOpt
          /\ state # "Ready"
          /\ parent = hist.built[1].checksum

\* C14 witness: registration has just succeeded with a session number and a
\* batch size limit taken from the reply.
C14_Registered ==
    /\ RegisterBuilt
    /\ pc = "idle"
    /\ result.kind = "Ok"
    /\ session \in Commits
    /\ batch_size_limit = <<HEADER_SIZE>>

\* C14 witness of the short body: registration has failed with InvalidSize.
C14_RegisterShortBody ==
    /\ RegisterBuilt
    /\ result = [kind |-> "Protocol", error |-> "InvalidSize"]

\* C15: when registration has ended with an error (the handle is given up),
\* the session state is Shutdown.
C15_RegisterFailureShutsDown ==
    (pc = "dropped" /\ RegisterBuilt) => state = "Shutdown"

\* the connection to the replica the view makes primary is down
PrimaryDown == connections[view % cfg.replica_count] = "Disconnected"

\* C16: when the last read of the wait delivered a header with a wrong tag, or
\* a well-tagged header whose command is neither Reply nor Eviction, or a whole
\* Reply to the pending request with a wrong body tag, the operation has
\* returned the Protocol error for it and the primary's connection is down.
C16_ProtocolErrorDropsPrimary ==
    /\ (hist.obs.seen /\ hist.obs.full /\ ~hist.obs.header_ok) =>
          /\ result = [kind |-> "Protocol", error |-> "InvalidHeaderChecksum"]
          /\ PrimaryDown
    /\ (hist.obs.seen /\ hist.obs.header_ok
            /\ hist.obs.command \notin {CommandReply, CommandEviction}) =>
          /\ result = [kind |-> "Protocol", error |-> "UnexpectedReply"]
          /\ PrimaryDown
    /\ (hist.obs.seen /\ hist.obs.header_ok /\ hist.obs.command = CommandReply
            /\ ~hist.obs.wrong_reply /\ hist.obs.complete /\ ~hist.obs.body_ok) =>
          /\ result = [kind |-> "Protocol", error |-> "InvalidBodyChecksum"]
          /\ PrimaryDown

\* C16 witness: a request has failed on a reply with a wrong body tag, read
\* from the primary of a view learned earlier.
C16_BodyChecksumRejected ==
    /\ pc = "idle"
    /\ result = [kind |-> "Protocol", error |-> "InvalidBodyChecksum"]
    /\ hist.obs.seen
    /\ view > 0

\* C17: when an operation has returned a Connection error (a connect, a write
\* or a read on the primary failed), the primary's connection is down.
C17_ConnectionErrorDropsPrimary ==
    (pc \in {"idle", "dropped"} /\ result.kind = "Connection") => PrimaryDown

\* C18: every attempt sends to the replica view mod replica_count and every
\* read of the wait is made on it; with more than one replica the backup is a
\* replica index other than the primary; with one replica there is no backup
\* and nothing is sent to one.
C18_PrimaryAndBackupIndex ==
    /\ hist.hedge.seen =>
          /\ hist.hedge.primary = view % cfg.replica_count
          /\ cfg.replica_count = 1 =>
                (hist.hedge.backup = <<>> /\ hist.hedge.to_backup = <<>>)
          /\ (cfg.replica_count > 1 /\ hist.hedge.primary_ok) =>
                hist.hedge.backup # <<>>
          /\ hist.hedge.backup # <<>> =>
                /\ hist.hedge.backup[1] \in 0 .. (cfg.replica_count - 1)
                /\ hist.hedge.backup[1] # hist.hedge.primary
    /\ (hist.obs.seen /\ result.kind # "Ok") =>
          hist.obs.replica = view % cfg.replica_count

\* C18 witness: in a view other than 0 a request went to the primary and to a
\* backup.
C18_HedgedInLaterView ==
    /\ pc = "wait"
    /\ view > 0
    /\ hist.hedge.seen
    /\ hist.hedge.to_backup # <<>>

\* C19: what goes to the backup is the message that went to the primary; when
\* the primary was connected and written to, the attempt goes on to the wait
\* whatever happened on the backup; when the primary's connect or write
\* failed, the operation has returned Connection and no backup was picked,
\* connected or written to.
C19_HedgeIgnoresBackupFailure ==
    hist.hedge.seen =>
       /\ hist.hedge.to_backup # <<>> =>
             (hist.hedge.to_backup = hist.hedge.to_primary /\ hist.hedge.to_backup = <<msg>>)
       /\ hist.hedge.primary_ok => (pc = "wait" /\ result = Pending)
       /\ ~hist.hedge.primary_ok =>
             /\ pc \in {"idle", "dropped"}
             /\ result.kind = "Connection"
             /\ hist.hedge.backup = <<>>
             /\ hist.hedge.to_backup = <<>>

\* C19 witness: the attempt waits for its reply although the connect or the
\* write on the backup failed.
C19_BackupFailed ==
    /\ pc = "wait"
    /\ hist.hedge.seen
    /\ hist.hedge.backup_failed

\* C19 witness of the other half: the attempt ended on a failure of the primary.
C19_PrimaryFailed ==
    /\ hist.hedge.seen
    /\ ~hist.hedge.primary_ok
    /\ cfg.replica_count > 1

\* C20: acquire never hands out a buffer of the quarantine (the quarantine is
\* as it was after every acquire; only the drain empties it), and when the
\* available list is empty the buffer acquire returns is a fresh one.
C20_QuarantineNotReused ==
    [][(pc = "pool" /\ Len(hist'.held) > Len(hist.held)) =>
          /\ quarantine' = quarantine
          /\ available = <<>> => hist'.from = "fresh"]_vars

\* C21: when an operation is dropped while its receive is outstanding, the
\* buffer of that receive is poisoned and appended to the quarantine queue
C21_CancelledBufferQuarantined ==
    [][(pc = "wait" /\ result'.kind = "Cancelled")
          => /\ Len(quarantine') = Len(quarantine) + 1
             /\ quarantine'[Len(quarantine')].poisoned]_vars

C23_RoundTrip ==
    (/\ hist.decoded
     /\ hist.encoded
     /\ hist.element_size \in {8, 16, 64, 128}
     /\ ByteLen(hist.events) \in {hist.element_size * c : c \in {0, 1, 2, 64, 8189}})
        => hist.payload = hist.events

\* C23 witness: a payload of 8189 elements of 128 bytes ending in 0xFF bytes
\* has been encoded and decoded again
C23_LargestRoundTrip ==
    /\ hist.decoded
    /\ hist.encoded
    /\ hist.element_size = 128
    /\ ByteLen(hist.events) = 128 * 8189
    /\ ByteAt(hist.events, ByteLen(hist.events) - 1) = 255
    /\ ByteAt(hist.events, 0) = 1

\* C24: encode returns payload_len + trailer_total_size(element_size, 1), which
\* is payload_len + ceil(4 / element_size) * element_size; its output holds the
\* payload at offset 0, batch_count = 1 little-endian in the last 2 bytes,
\* element_count = payload_bytes / element_size little-endian in the 2 bytes
\* before them, and 0xFF in every other trailer byte
C24_EncodeLayout ==
    (hist.encoded /\ hist.element_size > 0)
        => LET n     == ByteLen(hist.events)
               es    == hist.element_size
               size  == hist.size
               count == n \div es
           IN  /\ size = n + DivCeil(4, es) * es
               /\ ByteLen(hist.data) = n + DivCeil(4, es) * es
               /\ Take(hist.data, n) = hist.events
               /\ Drop(hist.data, ByteLen(hist.data) - 2) = Concat(Fill(1, 1), Fill(0, 1))
               /\ ByteAt(hist.data, ByteLen(hist.data) - 4) + 256 * ByteAt(hist.data, ByteLen(hist.data) - 3) = count
               /\ Take(Drop(hist.data, n), ByteLen(hist.data) - n - 4)
                     = Fill(255, ByteLen(hist.data) - n - 4)

\* C25: decode returns an empty payload when the buffer is shorter than 2
\* bytes, when the batch_count in its last two bytes is 0, or when the buffer
\* is shorter than trailer_total_size(element_size, batch_count); in every
\* other case it returns exactly the first len - trailer_total_size bytes
C25_DecodeCases ==
    hist.decoded
        => LET len == ByteLen(hist.data)
               batch_count == IF len < 2 THEN 0
                              ELSE ByteAt(hist.data, len - 2)
                                      + 256 * ByteAt(hist.data, len - 1)
               trailer == IF batch_count = 0 THEN 0
                          ELSE trailer_total_size(hist.element_size, batch_count)
           IN  IF len < 2 \/ batch_count = 0 \/ len < trailer
               THEN hist.payload = <<>>
               ELSE /\ ByteLen(hist.payload) = len - trailer
                    /\ hist.payload = Take(hist.data, len - trailer)

\* C25 witness: a buffer whose trailer announces more batches than the buffer
\* can hold has been decoded, to the empty payload a well-formed empty result
\* decodes to
C25_MalformedDecodedEmpty ==
    /\ hist.decoded
    /\ ~hist.encoded
    /\ ByteLen(hist.data) >= 4
    /\ ByteAt(hist.data, ByteLen(hist.data) - 1) = 1
    /\ hist.payload = <<>>

\* C25 witness: a buffer with a trailer of 4 batches has been decoded to the
\* bytes before that trailer
C25_WellFormedDecoded ==
    /\ hist.decoded
    /\ ~hist.encoded
    /\ ByteLen(hist.data) >= 4
    /\ ByteAt(hist.data, ByteLen(hist.data) - 2) = 4
    /\ ByteAt(hist.data, ByteLen(hist.data) - 1) = 0
    /\ hist.payload # <<>>

\* C26: validate succeeds on a finalized message; after a change to a body byte
\* it returns InvalidBodyChecksum, after a change to a header byte in 16..256
\* it returns InvalidHeaderChecksum, and after both it returns
\* InvalidHeaderChecksum
C26_ValidateAfterFinalize ==
    (pc = "validated" /\ hist.finalized # <<>>)
        => LET header_changed == HeaderTail(hist.message.header)
                                    # HeaderTail(hist.finalized[1].header)
               body_changed   == hist.message.body # hist.finalized[1].body
           IN  result.kind = IF header_changed THEN "InvalidHeaderChecksum"
                             ELSE IF body_changed THEN "InvalidBodyChecksum"
                             ELSE "Ok"

\* C26 witness: a finalized message whose body and stored checksum_body were
\* both changed has been validated
C26_BothCorrupted ==
    /\ pc = "validated"
    /\ hist.finalized # <<>>
    /\ hist.message.body # hist.finalized[1].body
    /\ hist.message.header.checksum_body # hist.finalized[1].header.checksum_body
    /\ result.kind = "InvalidHeaderChecksum"

\* C26 witness: a finalized message with one body byte changed has been
\* validated
C26_BodyCorrupted ==
    /\ pc = "validated"
    /\ hist.finalized # <<>>
    /\ hist.message.body # hist.finalized[1].body
    /\ hist.message.header = hist.finalized[1].header
    /\ result.kind = "InvalidBodyChecksum"

\* C27: with a batch_size_limit of at most 1 MiB, every request the client has
\* built and sends has header size = 256 + body length, and
\* 256 <= size <= MESSAGE_SIZE_MAX
C27_RequestSizeWithinMax ==
    (InFlight /\ batch_size_limit # NoneOpt /\ batch_size_limit[1] <= MESSAGE_SIZE_MAX)
        => /\ msg.header.size = HEADER_SIZE + msg.body.len
           /\ HEADER_SIZE <= msg.header.size
           /\ msg.header.size <= MESSAGE_SIZE_MAX

\* C28: when the payload left after the multi-batch trailer is stripped is not
\* a whole multiple of the result element size, the typed operation returns a
\* protocol error, not a result list
C28_PartialElementIsProtocolError ==
    (pc = "parsed" /\ ByteLen(hist.payload) % hist.element_size # 0)
        => result.kind = "Protocol"

\* C29: a typed operation called with an empty batch returns without building
\* a request to send, and leaves parent and request_number as they were
C29_EmptyBatchNotSent ==
    [][(pc = "idle" /\ hist'.asked.seen /\ hist'.asked.payload_bytes = 0)
          => /\ pc' = "idle"
             /\ msg' = NoMsg
             /\ UNCHANGED <<parent, request_number>>]_vars

\* C30: the loop of the thread bridge serves the calls in the order they were
\* enqueued and one at a time.  A call is started only as the head of the
\* queue, with its own events, while the client is idle and every call
\* submitted before it has its answer; and while the loop runs, a reply
\* channel is answered only for the call being served, with what the client
\* returned for it, before anything else is started.
C30_BridgeServesInOrder ==
    [][/\ (bridge'.cur # bridge.cur /\ bridge'.cur # 0)
            => /\ bridge.cur = 0
               /\ pc = "idle"
               /\ bridge.queue # <<>>
               /\ Head(bridge.queue).call = bridge'.cur
               /\ hist'.asked.payload_bytes
                     = Head(bridge.queue).count * size_of(Head(bridge.queue).operation)
               /\ \A j \in 1 .. (bridge'.cur - 1) : bridge.replies[j] # "waiting"
       /\ \A c \in 1 .. MaxCalls :
             (bridge.replies[c] = "waiting" /\ bridge'.replies[c] # "waiting"
                 /\ bridge'.rx_open)
                => /\ c = IF bridge.cur # 0 THEN bridge.cur ELSE Head(bridge.queue).call
                   /\ \A j \in 1 .. (c - 1) : bridge.replies[j] # "waiting"
                   /\ bridge'.replies[c] = result'.kind
                   /\ bridge'.cur = 0
                   /\ pc' = "idle"
       /\ (pc' \in {"send", "wait"} /\ ~in_register')
            => /\ bridge'.cur # 0
               /\ bridge'.replies[bridge'.cur] = "waiting"]_vars

\* C30 witness: two calls were enqueued, the first for a batch over the limit
\* and the second for a batch within it, and each has had its own result
C30_TwoCallsAnswered ==
    /\ cfg.bridged
    /\ bridge.replies[1] = "RequestTooLarge"
    /\ bridge.replies[2] = "Ok"
    /\ bridge.rx_open

\* C31: on a registered client, a batch of exactly max_batch_count elements is
\* not rejected with RequestTooLarge and a batch of max_batch_count + 1
\* elements is, whatever batch_size_limit the server returned
C31_MaxBatchCountIsTheBoundary ==
    [][(/\ pc = "idle" /\ state = "Ready" /\ batch_size_limit # NoneOpt
        /\ hist'.asked.seen)
          => LET es    == hist'.asked.element_size
                 count == hist'.asked.payload_bytes \div es
                 max   == max_batch_count(batch_size_limit, es)[1]
             IN  /\ count = max => result'.kind # "RequestTooLarge"
                 /\ count = max + 1 => result'.kind = "RequestTooLarge"]_vars

C37_JitterRangeNeverEmpty ==
    [][(pc = "wait" /\ hist'.obs = TimedOut)
          => /\ Jitters(Backoff(timeout, cfg.request_timeout_max)) # {}
             /\ pc' = "send"]_vars

\* what a read delivered is less than a complete message: fewer than 256 bytes,
\* or a Reply header followed by less than its size announces
PartialRead(o) ==
    /\ o.seen
    /\ \/ o.n < HEADER_SIZE
       \/ o.header_ok /\ o.command = CommandReply /\ o.n < HEADER_SIZE + o.body_len

\* C33: a read of less than a complete message surfaces no error: the
\* operation goes on waiting with session, connections and request untouched,
\* and the buffer goes back to the pool with the bytes in it; the read after
\* it is parsed as its own bytes alone, from offset 0 of a buffer of length 0
C33_PartialReadDiscarded ==
    [][/\ (pc = "wait" /\ PartialRead(hist'.obs))
            => /\ pc' = "wait"
               /\ result' = Pending
               /\ UNCHANGED <<session_vars, connections, msg, expected_checksum,
                              attempts, timeout>>
               /\ available' # <<>>
               /\ available'[Len(available')] = [len |-> hist'.obs.n, poisoned |-> FALSE]
               /\ quarantine' = quarantine
       /\ (pc = "wait" /\ PartialRead(hist.obs) /\ hist'.obs.seen)
            => /\ acquire(available, quarantine).buf.len = 0
               /\ \E d \in Received[expected_checksum] :
                     /\ hist'.obs = Observe(d, expected_checksum, cfg.id)
                     /\ try_parse_reply(d, expected_checksum, cfg.id).tag = "Ok"
                           => /\ result'.kind \in {"Ok", "Protocol"}
                              /\ pc' \in {"idle", "dropped"}]_vars

\* C33 witness: the read before was a valid Reply header with less than the
\* message it announces, and the operation is still waiting
C33_PartialReplyRead ==
    /\ pc = "wait"
    /\ result = Pending
    /\ hist.obs.seen
    /\ hist.obs.header_ok
    /\ hist.obs.command = CommandReply
    /\ hist.obs.n < HEADER_SIZE + hist.obs.body_len

\* C34: the buffer acquire has just returned is unpoisoned and of length 0,
\* whether it came from the available list, from the quarantine or was newly
\* allocated, and no buffer of the available list is ever poisoned.
C34_AcquiredBufferIsClean ==
    /\ (pc = "pool" /\ hist.from # "none")
          => /\ hist.held # <<>>
             /\ hist.held[Len(hist.held)] = [len |-> 0, poisoned |-> FALSE]
    /\ pc = "pool" => \A i \in 1 .. Len(available) : ~available[i].poisoned

\* C34 witness: acquire has returned a buffer of the quarantine, where only
\* poisoned buffers are put, and the caller holds it.
C34_AcquiredFromQuarantine ==
    /\ pc = "pool"
    /\ hist.from = "quarantine"
    /\ available = <<>>
    /\ hist.held # <<>>

\* C35: a read that delivers a checksum-valid Reply header whose size field is
\* below 256 ends the operation with a Protocol error and the primary's
\* connection dropped; the thread of the handle does not panic.
C35_ShortReplyIsProtocolError ==
    [][(/\ pc = "wait"
        /\ hist'.obs.seen
        /\ hist'.obs.header_ok
        /\ hist'.obs.command = CommandReply
        /\ hist'.obs.body_len < 0)
          => /\ result'.kind = "Protocol"
             /\ pc' # "panicked"
             /\ connections'[primary_index] = "Disconnected"]_vars

\* C36: whatever wait_for_reply does with a read (accepts the reply, skips a
\* partial read or a wrong reply, returns an eviction, a protocol error or a
\* receive error) or with the timer, the pool holds as many buffers
\* (available and quarantined together) after it as before.
C36_PoolSizeKept ==
    [][(pc = "wait" /\ result'.kind # "Panic")
          => Len(available') + Len(quarantine')
                = Len(available) + Len(quarantine)]_vars

\* the order of the session states
StateRank ==
    [s \in States |-> CASE s = "Disconnected" -> 0
                        [] s = "Registering" -> 1
                        [] s = "Ready" -> 2
                        [] s = "Shutdown" -> 3]

\* C38: no step moves the session state backward along Disconnected,
\* Registering, Ready, Shutdown; register called in a state other than
\* Disconnected returns InvalidOperation and leaves the state alone, and called
\* in Disconnected it moves to Registering; when build returns a handle (register
\* returned Ok) the handle is Ready and its batch_size_limit is set.
C38_StateOnlyForward ==
    [][/\ StateRank[state'] >= StateRank[state]
       /\ (pc = "build" /\ state # "Disconnected")
             => /\ result'.kind = "InvalidOperation"
                /\ pc' = "dropped"
                /\ UNCHANGED session_vars
       /\ (pc = "build" /\ state = "Disconnected")
             => /\ state' = "Registering"
                /\ result' = Pending
       /\ (in_register /\ pc' = "idle")
             => /\ result'.kind = "Ok"
                /\ state = "Registering"
                /\ state' = "Ready"
                /\ batch_size_limit' # NoneOpt]_vars

\* C38 witness: register was called on a Ready handle and refused.
C38_RegisterRefused ==
    /\ pc = "dropped"
    /\ result.kind = "InvalidOperation"
    /\ state = "Ready"

\* C39: an operation that waits for its reply eventually returns the reply,
\* unless it ends on an outcome other than a timeout, a re-send, a partial
\* read or a wrong reply (a connection error, an eviction, a protocol error).
C39_ReplyEventuallyReturned ==
    (pc = "wait") ~> (result.kind \in {"Ok", "Connection", "Evicted", "Protocol"})

\* the calls of the requests queued in the channel (0: a shutdown request)
QueuedCalls(b) == {b.queue[i].call : i \in 1 .. Len(b.queue)} \ {0}

\* C40: the step in which the loop serves a Shutdown request closes the client
\* and ends the loop, and answers every request still queued with Connection;
\* from then on nothing is executed on the client (its session, connections,
\* pool and request are untouched), every call submitted gets Connection (a
\* further shutdown is ignored), and no caller is left waiting.
C40_NothingServedAfterShutdown ==
    [][/\ (cfg.bridged /\ state # "Shutdown" /\ state' = "Shutdown")
             => /\ pc' = "closed"
                /\ ~bridge'.rx_open
                /\ bridge'.queue = <<>>
                /\ \A i \in QueuedCalls(bridge) : bridge'.replies[i] = "Connection"
                /\ msg' = NoMsg
                /\ hist'.sent = {}
       /\ (cfg.bridged /\ state = "Shutdown")
             => /\ UNCHANGED <<session_vars, connections, available, quarantine, pc,
                               msg, expected_checksum, result, hist>>
                /\ bridge'.queue = <<>>
                /\ \A i \in 1 .. MaxCalls :
                      bridge'.replies[i] # bridge.replies[i]
                         => /\ i = bridge.calls + 1
                            /\ bridge'.replies[i] \in {"Connection", "ignored"}
       /\ (cfg.bridged /\ state' = "Shutdown")
             => \A i \in 1 .. MaxCalls : bridge'.replies[i] # "waiting"]_vars

\* C40 witness: a shutdown was submitted and a call was queued behind it
\* before the loop served the shutdown (no call was made afterwards); the
\* loop has stopped and the call got Connection.
C40_QueuedBehindShutdown ==
    /\ cfg.bridged
    /\ state = "Shutdown"
    /\ pc = "closed"
    /\ bridge.replies[1] = "sent"
    /\ bridge.replies[2] = "Connection"
    /\ bridge.after_close = {}

====
